---- MODULE Spec2Model ----
(***************************************************************************)
(* Batch-state engine of ct2_causal_lm.py: CT2CausalLMBatch.from_pb,       *)
(* .filter, .concatenate and CT2CausalLM.generate_token, run in lock step  *)
(* by world_size shards that each hold a full copy of the cached batches.  *)
(*                                                                         *)
(* Sequences are 1-based; row indices stored in requests_idx_mapping and   *)
(* used by the sharding rule are the 0-based Python indices.               *)
(***************************************************************************)
EXTENDS Integers, Sequences, FiniteSets, TLC

\* ------------------------------------------------------------------ bounds
MaxReq == 2        \* requests admitted over a behaviour (ids 1..MaxReq)
MaxBatch == 2      \* batch messages ingested over a behaviour
MaxSize == 2       \* requests in one batch message
MaxLen == 2        \* longest tokenized prompt
MaxNew == 2        \* largest max_new_tokens
MaxWorld == 2      \* largest world_size
MergeMaxReq == 3   \* requests held by the three batches of SpecMerge
MergeMaxNew == 3   \* largest max_new_tokens in SpecMerge
LifeMaxNew == 3    \* largest max_new_tokens in SpecLife

\* ------------------------------------------------------------------ tokens
PAD == 0                       \* tokenizer.pad_token_id
TokG == 1                      \* an ordinary generated token
TokEOS == 2                    \* the end-of-sequence token
PromptTok(id) == 10 + id       \* the prompt tokens of request id
GenTokens == {TokG, TokEOS}

\* ----------------------------------------------------------- small helpers
Max2(a, b) == IF a >= b THEN a ELSE b
Min2(a, b) == IF a <= b THEN a ELSE b

RECURSIVE SeqMax(_)
SeqMax(s) == IF s = <<>> THEN 0 ELSE Max2(Head(s), SeqMax(Tail(s)))

RECURSIVE SeqSum(_)
SeqSum(s) == IF s = <<>> THEN 0 ELSE Head(s) + SeqSum(Tail(s))

Rep(x, n) == [k \in 1..n |-> x]
Range(s) == {s[k] : k \in 1..Len(s)}
Last(s) == s[Len(s)]

\* Python index normalisation inside a slice of a sequence of length n
PyNorm(i, n) == IF i < 0 THEN Max2(0, n + i) ELSE Min2(i, n)
\* s[a:b] with Python semantics (a, b may be negative)
PySlice(s, a, b) == SubSeq(s, PyNorm(a, Len(s)) + 1, PyNorm(b, Len(s)))
\* s[a:]
PyFrom(s, a) == SubSeq(s, PyNorm(a, Len(s)) + 1, Len(s))

\* ------------------------------------------------- collaborators (objects)
\* generate_pb2.Request: inputs is the number of tokens the prompt
\* tokenizes to (after the tokenizer's truncation).  prefill_logprobs is
\* read once, by the row's first step, and is drawn there.
Request(id, ntok, mnt) == [id |-> id, inputs |-> ntok, max_new_tokens |-> mnt]

\* StoppingCriteria.from_pb: a fresh object, owned by request rid
NewStoppingCriteria(r) ==
    [rid |-> r.id, max_new_tokens |-> r.max_new_tokens, current_tokens |-> 0]

\* NextTokenChooser.from_pb
NewNextTokenChooser(r) == [rid |-> r.id]

\* StoppingCriteria.__call__(last_token, last_output)
StoppingCriteriaCall(sc, tok) ==
    LET ct == sc.current_tokens + 1
    IN  [sc |-> [sc EXCEPT !.current_tokens = ct],
         stop |-> (ct >= sc.max_new_tokens) \/ (tok = TokEOS),
         reason |-> IF ct >= sc.max_new_tokens THEN "length"
                    ELSE IF tok = TokEOS THEN "eos_token" ELSE "none"]

\* Model.decode_token(all_input_ids, prefix_offset, read_offset): every token
\* decodes to complete text, so the offsets advance
DecodeToken(hist, prefix_offset, read_offset) ==
    [text |-> <<Last(hist)>>, prefix_offset |-> read_offset, read_offset |-> Len(hist)]

\* tokenizer(inputs, padding=True, truncation_side/padding_side="left")
TokenizerIds(reqs) ==
    LET W == SeqMax([k \in 1..Len(reqs) |-> reqs[k].inputs])
    IN  [k \in 1..Len(reqs) |->
            Rep(PAD, W - reqs[k].inputs) \o Rep(PromptTok(reqs[k].id), reqs[k].inputs)]
TokenizerMask(reqs) ==
    LET W == SeqMax([k \in 1..Len(reqs) |-> reqs[k].inputs])
    IN  [k \in 1..Len(reqs) |->
            Rep(0, W - reqs[k].inputs) \o Rep(1, reqs[k].inputs)]

\* past_key_values: None, or a list of layers
PastNone == [isNone |-> TRUE, layers |-> <<>>]
PastList(ls) == [isNone |-> FALSE, layers |-> ls]

\* --------------------------------------------------------------- from_pb
\* mutant of FromPbMask: the buffer is allocated with ones
FromPbMaskMut(tmask, max_input_length, padding_right_offset) ==
    [k \in 1..Len(tmask) |->
        [c \in 1..(max_input_length + padding_right_offset) |->
            IF c <= max_input_length THEN tmask[k][c] ELSE 1]]

\* attention_mask = new_zeros((size, max_input_length + padding_right_offset));
\* attention_mask[:, :max_input_length] = tokenized attention_mask
FromPbMask(tmask, max_input_length, padding_right_offset) ==
    [k \in 1..Len(tmask) |->
        [c \in 1..(max_input_length + padding_right_offset) |->
            IF c <= max_input_length THEN tmask[k][c] ELSE 0]]

\* position_ids = cumsum(mask) - 1, masked_fill_(mask == 0, 1)
FromPbPositions(tmask) ==
    [k \in 1..Len(tmask) |->
        [c \in 1..Len(tmask[k]) |->
            IF tmask[k][c] = 0 THEN 1
            ELSE SeqSum(SubSeq(tmask[k], 1, c)) - 1]]

FromPbMaxTokens(n, max_input_length, max_decode_tokens) ==
    n * (max_input_length + max_decode_tokens)

\* mutant of FromPbPaddingRightOffset: the running maximum is never updated
FromPbPaddingRightOffsetMut(scs) == 0 * Len(scs)

\* padding_right_offset = max(padding_right_offset, max_new_tokens), from 0
FromPbPaddingRightOffset(scs) ==
    SeqMax([k \in 1..Len(scs) |-> scs[k].max_new_tokens])

FromPb(pbid, reqs) ==
    LET n == Len(reqs)
        scs == [k \in 1..n |-> NewStoppingCriteria(reqs[k])]
        padding_right_offset == FromPbPaddingRightOffset(scs)
        max_decode_tokens == SeqSum([k \in 1..n |-> scs[k].max_new_tokens])
        ids == TokenizerIds(reqs)
        tmask == TokenizerMask(reqs)
        input_len == Len(ids[1])
        input_lengths == [k \in 1..n |-> SeqSum(tmask[k])]
        max_input_length == SeqMax(input_lengths)
    IN  [batch_id |-> pbid,
         requests |-> reqs,
         requests_idx_mapping |-> [id \in {reqs[k].id : k \in 1..n} |->
                                     (CHOOSE k \in 1..n : reqs[k].id = id) - 1],
         input_ids |-> ids,
         attention_mask |-> FromPbMask(tmask, max_input_length, padding_right_offset),
         position_ids |-> FromPbPositions(tmask),
         past_key_values |-> PastNone,
         all_input_ids |-> ids,
         input_lengths |-> input_lengths,
         prefix_offsets |-> Rep(input_len - 5, n),
         read_offsets |-> Rep(input_len, n),
         next_token_choosers |-> [k \in 1..n |-> NewNextTokenChooser(reqs[k])],
         stopping_criterias |-> scs,
         max_input_length |-> max_input_length,
         padding_right_offset |-> padding_right_offset,
         max_tokens |-> FromPbMaxTokens(n, max_input_length, max_decode_tokens),
         keys_head_dim_last |-> TRUE]

BLen(b) == Len(b.requests)
\* ---------------------------------------------------------------- filter
\* mutant of FilterRejects: the empty list is not rejected
FilterRejectsMut(request_ids) == Len(request_ids) < 0

\* if len(request_ids) == 0: raise ValueError
FilterRejects(request_ids) == Len(request_ids) = 0

\* mutant of FilterShortcut: the comparison is strict
FilterShortcutMut(b, request_ids) == Len(request_ids) > BLen(b)

\* if len(request_ids) == len(self): return self
FilterShortcut(b, request_ids) == Len(request_ids) = BLen(b)

\* keep_indices (as 1-based rows); only evaluated when every id is a key
FilterKeepIndices(b, request_ids) ==
    [k \in 1..Len(request_ids) |-> b.requests_idx_mapping[request_ids[k]] + 1]

\* requests_idx_mapping[request_id] = i, the last occurrence winning
FilterMapping(request_ids) ==
    [id \in Range(request_ids) |->
        (CHOOSE k \in 1..Len(request_ids) :
            /\ request_ids[k] = id
            /\ \A j \in (k + 1)..Len(request_ids) : request_ids[j] # id) - 1]

Gather(arr, keep) == [k \in 1..Len(keep) |-> arr[keep[k]]]

FilterMaxInputLength(b, keep) == SeqMax(Gather(b.input_lengths, keep))

FilterRemaining(b, keep) ==
    [k \in 1..Len(keep) |->
        b.stopping_criterias[keep[k]].max_new_tokens
          - b.stopping_criterias[keep[k]].current_tokens]

\* new_padding_right_offset = max(new_padding_right_offset, remaining), from 0
FilterPaddingRightOffset(b, keep) == SeqMax(FilterRemaining(b, keep))

\* self.attention_mask[keep_indices,
\*     -(self.padding_right_offset + max_input_length) :
\*     (self.attention_mask.shape[1] - self.padding_right_offset) + new_padding_right_offset]
FilterMask(b, keep) ==
    LET mil == FilterMaxInputLength(b, keep)
        npro == FilterPaddingRightOffset(b, keep)
    IN  [k \in 1..Len(keep) |->
            PySlice(b.attention_mask[keep[k]],
                    -(b.padding_right_offset + mil),
                    (Len(b.attention_mask[keep[k]]) - b.padding_right_offset) + npro)]

\* layer[0] = past_keys[keep_indices, :, -past_kv_length:, :] (a layer is
\* abstracted to its row count and its time length)
FilterLayer(layer, keep, past_kv_length) ==
    [rows |-> Len(keep),
     kv_len |-> IF past_kv_length = 0 THEN layer.kv_len
                ELSE Min2(layer.kv_len, past_kv_length)]

FilterMaxTokens(b, request_ids, keep) ==
    Len(request_ids) * FilterMaxInputLength(b, keep) + SeqSum(FilterRemaining(b, keep))

\* the assignments of lines 269-281, once the cache loop has completed
FilterAssign(b1, b, request_ids, keep) ==
    [b1 EXCEPT
        !.requests = Gather(b.requests, keep),
        !.requests_idx_mapping = FilterMapping(request_ids),
        !.input_ids = Gather(b.input_ids, keep),
        !.position_ids = Gather(b.position_ids, keep),
        !.all_input_ids = Gather(b.all_input_ids, keep),
        !.input_lengths = Gather(b.input_lengths, keep),
        !.prefix_offsets = Gather(b.prefix_offsets, keep),
        !.read_offsets = Gather(b.read_offsets, keep),
        !.next_token_choosers = Gather(b.next_token_choosers, keep),
        !.stopping_criterias = Gather(b.stopping_criterias, keep),
        !.past_key_values = PastList([j \in 1..Len(b.past_key_values.layers) |->
            FilterLayer(b.past_key_values.layers[j], keep,
                        FilterMaxInputLength(b, keep) - 1)]),
        !.max_input_length = FilterMaxInputLength(b, keep),
        !.padding_right_offset = FilterPaddingRightOffset(b, keep),
        !.max_tokens = FilterMaxTokens(b, request_ids, keep)]

\* filter(self, request_ids): the outcome and the object as the call leaves it
Filter(b, request_ids) ==
    IF FilterRejects(request_ids)
    THEN [outcome |-> "ValueError", batch |-> b]
    ELSE IF FilterShortcut(b, request_ids)
    THEN [outcome |-> "returned", batch |-> b]
    ELSE IF \E k \in 1..Len(request_ids) :
                request_ids[k] \notin DOMAIN b.requests_idx_mapping
    THEN [outcome |-> "KeyError", batch |-> b]
    ELSE
      LET keep == FilterKeepIndices(b, request_ids)
          b1 == [b EXCEPT !.attention_mask = FilterMask(b, keep)]
      IN  \* type(self.past_key_values[0])
          IF b.past_key_values.isNone
          THEN [outcome |-> "TypeError", batch |-> b1]
          ELSE IF b.past_key_values.layers = <<>>
          THEN [outcome |-> "IndexError", batch |-> b1]
          ELSE [outcome |-> "returned",
                batch |-> FilterAssign(b1, b, request_ids, keep)]
\* ------------------------------------------------------------ concatenate
ConcatTotalBatchSize(batches) == SeqSum([j \in 1..Len(batches) |-> BLen(batches[j])])
ConcatMaxInputLength(batches) ==
    SeqMax([j \in 1..Len(batches) |-> batches[j].max_input_length])

\* mutant of ConcatPaddingRightOffset: assigned per batch, no maximum taken
ConcatPaddingRightOffsetMut(batches) ==
    batches[Len(batches)].padding_right_offset

\* padding_right_offset = max(padding_right_offset, batch.padding_right_offset)
ConcatPaddingRightOffset(batches) ==
    SeqMax([j \in 1..Len(batches) |-> batches[j].padding_right_offset])

\* start_index of batch j: the cumulative size of the batches before it
ConcatStartIndex(batches, j) == SeqSum([k \in 1..(j - 1) |-> BLen(batches[k])])

\* requests_idx_mapping after the loop has handled batches 1..upto: the first
\* batch's dict, into which the later batches' entries are written with their
\* row offset
ConcatMapping(batches, upto) ==
    [id \in UNION {DOMAIN batches[j].requests_idx_mapping : j \in 1..upto} |->
        LET j == CHOOSE j \in 1..upto :
                    /\ id \in DOMAIN batches[j].requests_idx_mapping
                    /\ \A k \in (j + 1)..upto :
                           id \notin DOMAIN batches[k].requests_idx_mapping
        IN  IF j = 1 THEN batches[1].requests_idx_mapping[id]
            ELSE batches[j].requests_idx_mapping[id] + ConcatStartIndex(batches, j)]

\* left_offset = max_input_length - batch.max_input_length
ConcatLeftOffset(max_input_length, b) == max_input_length - b.max_input_length

\* batch_left_offset = mask width - batch.max_input_length - batch.padding_right_offset
ConcatBatchLeftOffset(b, row) ==
    Len(row) - b.max_input_length - b.padding_right_offset

\* batch.attention_mask[:, batch_left_offset : -batch.padding_right_offset]
ConcatSource(b, row) ==
    PySlice(row, ConcatBatchLeftOffset(b, row), -b.padding_right_offset)

\* the columns left_offset:-padding_right_offset of a row of the given width
ConcatDestFirst(width, max_input_length, b) ==
    PyNorm(ConcatLeftOffset(max_input_length, b), width)
ConcatDestStop(width, padding_right_offset) == PyNorm(-padding_right_offset, width)

\* the slice assignment is accepted when the shapes agree or broadcast
ConcatShapeOK(b, max_input_length, padding_right_offset) ==
    LET width == max_input_length + padding_right_offset
        first == ConcatDestFirst(width, max_input_length, b)
        stop == ConcatDestStop(width, padding_right_offset)
        dw == IF stop > first THEN stop - first ELSE 0
    IN  \A k \in 1..Len(b.attention_mask) :
            LET src == ConcatSource(b, b.attention_mask[k])
            IN  Len(src) = dw \/ Len(src) = 1

\* mutant of ConcatMaskRow: the merged mask is allocated with ones
ConcatMaskRowMut(b, row, max_input_length, padding_right_offset) ==
    LET width == max_input_length + padding_right_offset
        first == ConcatDestFirst(width, max_input_length, b)
        stop == ConcatDestStop(width, padding_right_offset)
        src == ConcatSource(b, row)
    IN  [c \in 1..width |->
            IF c > first /\ c <= stop
            THEN (IF Len(src) = 1 THEN src[1] ELSE src[c - first])
            ELSE 1]

\* one row of the merged mask: zeros, with the source copied into the window
ConcatMaskRow(b, row, max_input_length, padding_right_offset) ==
    LET width == max_input_length + padding_right_offset
        first == ConcatDestFirst(width, max_input_length, b)
        stop == ConcatDestStop(width, padding_right_offset)
        src == ConcatSource(b, row)
    IN  [c \in 1..width |->
            IF c > first /\ c <= stop
            THEN (IF Len(src) = 1 THEN src[1] ELSE src[c - first])
            ELSE 0]

\* mutant of ConcatMaxTokensTerm: the padding is counted for one row only
ConcatMaxTokensTermMut(b, max_input_length) ==
    b.max_tokens + (max_input_length - b.max_input_length)

\* max_tokens += batch.max_tokens + (max_input_length - batch.max_input_length) * len(batch)
ConcatMaxTokensTerm(b, max_input_length) ==
    b.max_tokens + (max_input_length - b.max_input_length) * BLen(b)

\* mutant of ConcatMaxTokens: "=" in place of "+=", the last term is kept
ConcatMaxTokensMut(batches, max_input_length) ==
    ConcatMaxTokensTerm(batches[Len(batches)], max_input_length)

\* max_tokens = 0, then "+=" once per batch
ConcatMaxTokens(batches, max_input_length) ==
    SeqSum([j \in 1..Len(batches) |-> ConcatMaxTokensTerm(batches[j], max_input_length)])

\* list.extend / row-range copy over the batches, in order
RECURSIVE ConcatRows(_, _)
ConcatRows(batches, field) ==
    IF batches = <<>> THEN <<>>
    ELSE field[1] \o ConcatRows(Tail(batches), Tail(field))
Field(batches, f) == [j \in 1..Len(batches) |-> batches[j][f]]
Extend(batches, f) == ConcatRows(batches, Field(batches, f))

ConcatMask(batches, max_input_length, padding_right_offset) ==
    ConcatRows(batches,
        [j \in 1..Len(batches) |->
            [k \in 1..Len(batches[j].attention_mask) |->
                ConcatMaskRow(batches[j], batches[j].attention_mask[k],
                              max_input_length, padding_right_offset)]])

ConcatResult(batches) ==
    LET max_input_length == ConcatMaxInputLength(batches)
        padding_right_offset == ConcatPaddingRightOffset(batches)
    IN  [batch_id |-> batches[1].batch_id,
         requests |-> Extend(batches, "requests"),
         requests_idx_mapping |-> ConcatMapping(batches, Len(batches)),
         input_ids |-> Extend(batches, "input_ids"),
         attention_mask |-> ConcatMask(batches, max_input_length, padding_right_offset),
         position_ids |-> Extend(batches, "position_ids"),
         past_key_values |-> PastList(<<>>),
         all_input_ids |-> Extend(batches, "all_input_ids"),
         input_lengths |-> Extend(batches, "input_lengths"),
         prefix_offsets |-> Extend(batches, "prefix_offsets"),
         read_offsets |-> Extend(batches, "read_offsets"),
         next_token_choosers |-> Extend(batches, "next_token_choosers"),
         stopping_criterias |-> Extend(batches, "stopping_criterias"),
         max_input_length |-> max_input_length,
         padding_right_offset |-> padding_right_offset,
         max_tokens |-> ConcatMaxTokens(batches, max_input_length),
         keys_head_dim_last |-> batches[1].keys_head_dim_last]

\* the input objects as the call leaves them: requests_idx_mapping of the
\* result IS the first input's dict (line 327), so the entries written at
\* line 331 for batches 2..upto appear in the first input
ConcatInputsAfter(batches, upto) ==
    [j \in 1..Len(batches) |->
        IF j = 1
        THEN [batches[1] EXCEPT !.requests_idx_mapping = ConcatMapping(batches, upto)]
        ELSE batches[j]]

\* concatenate(cls, batches): outcome, result (a list of 0 or 1 batch) and inputs
Concatenate(batches) ==
    LET max_input_length == ConcatMaxInputLength(batches)
        padding_right_offset == ConcatPaddingRightOffset(batches)
        bad == {j \in 1..Len(batches) :
                   ~ConcatShapeOK(batches[j], max_input_length, padding_right_offset)}
    IN  IF bad = {}
        THEN [outcome |-> "returned",
              result |-> <<ConcatResult(batches)>>,
              inputs |-> ConcatInputsAfter(batches, Len(batches))]
        ELSE [outcome |-> "RuntimeError",
              result |-> <<>>,
              inputs |-> ConcatInputsAfter(batches,
                            CHOOSE j \in bad : \A k \in bad : j <= k)]
\* --------------------------------------------------------- generate_token
\* the fill value of torch.nested.to_padded_tensor in forward_ct2
FillValue == 1234567

\* forward_ct2(all_input_ids, input_lengths): what is handed to
\* ct2_model.forward_batch, the histories right-padded with the fill value to
\* the longest one, and lengths = input_lengths
ForwardCt2(all_input_ids, input_lengths) ==
    LET longest == SeqMax([k \in 1..Len(all_input_ids) |-> Len(all_input_ids[k])])
    IN  [ids_input |-> [k \in 1..Len(all_input_ids) |->
                          all_input_ids[k]
                            \o Rep(FillValue, longest - Len(all_input_ids[k]))],
         lengths |-> input_lengths]

\* the per-row body of the loop (lines 692-715): token appended, length
\* incremented, text decoded, stopping criteria evaluated
StepRow(b, k, tok) ==
    LET hist == Append(b.all_input_ids[k], tok)
        dec == DecodeToken(hist, b.prefix_offsets[k], b.read_offsets[k])
        sc == StoppingCriteriaCall(b.stopping_criterias[k], tok)
    IN  [all_input_ids |-> hist,
         new_input_length |-> b.input_lengths[k] + 1,
         next_token_id |-> tok,
         next_token_text |-> dec.text,
         prefix_offset |-> dec.prefix_offset,
         read_offset |-> dec.read_offset,
         stopping_criteria |-> sc.sc,
         stop |-> sc.stop,
         reason |-> sc.reason]

\* mutant of ShardEmits: the row index is taken 1-based
ShardEmitsMut(i, world_size, rank) == (i + 1) % world_size = rank

\* if i % self.world_size == self.rank  (i is the 0-based row index)
ShardEmits(i, world_size, rank) == i % world_size = rank

\* mutant of StepGeneratedText: the text spans max_new_tokens tokens
StepGeneratedTextMut(row) ==
    IF row.stop
    THEN <<[output_tokens |-> PyFrom(row.all_input_ids,
                                     -row.stopping_criteria.max_new_tokens),
            generated_tokens |-> row.stopping_criteria.current_tokens,
            finish_reason |-> row.reason]>>
    ELSE <<>>

\* GeneratedText(output_text, current_tokens, reason, seed), or None (<<>>)
StepGeneratedText(row) ==
    IF row.stop
    THEN <<[output_tokens |-> PyFrom(row.all_input_ids,
                                     -row.stopping_criteria.current_tokens),
            generated_tokens |-> row.stopping_criteria.current_tokens,
            finish_reason |-> row.reason]>>
    ELSE <<>>

\* PrefillTokens(prefill_token_ids, prefill_logprobs, prefill_texts), or None.
\* A log-probability is represented by the history position whose logits it
\* is gathered from, NaN by -1.
StepPrefill(prefill_logprobs, row) ==
    IF row.stopping_criteria.current_tokens = 1 /\ prefill_logprobs
    THEN <<[token_ids |-> PySlice(row.all_input_ids, -row.new_input_length, -1),
            logprobs |-> <<-1>> \o
                PySlice([p \in 1..(Len(row.all_input_ids) - 1) |-> p],
                        -row.new_input_length, -1)]>>
    ELSE <<>>

StepGeneration(request, prefill_logprobs, row) ==
    [request_id |-> request.id,
     prefill_tokens |-> StepPrefill(prefill_logprobs, row),
     token_id |-> row.next_token_id,
     token_text |-> row.next_token_text,
     generated_text |-> StepGeneratedText(row)]

\* generations, in row order, of the rows this shard emits
RECURSIVE StepGenerations(_, _, _, _, _, _)
StepGenerations(b, rows, k, pl, world_size, rank) ==
    IF k > Len(rows) THEN <<>>
    ELSE (IF ShardEmits(k - 1, world_size, rank)
          THEN <<StepGeneration(b.requests[k], pl, rows[k])>> ELSE <<>>)
         \o StepGenerations(b, rows, k + 1, pl, world_size, rank)

\* mutant of StepStopped: the flag starts False and one stop sets it
StepStoppedMut(rows) == \E k \in 1..Len(rows) : rows[k].stop

\* stopped = True; if not stop: stopped = False
StepStopped(rows) == \A k \in 1..Len(rows) : rows[k].stop

\* mutant of StepUpdateRows: input_lengths is not written back
StepUpdateRowsMut(b, rows) ==
    [b EXCEPT
        !.input_ids = [k \in 1..Len(b.input_ids) |->
            IF k <= Len(rows)
            THEN [b.input_ids[k] EXCEPT ![1] = rows[k].next_token_id]
            ELSE b.input_ids[k]],
        !.all_input_ids = [k \in 1..Len(rows) |-> rows[k].all_input_ids],
        !.prefix_offsets = [k \in 1..Len(rows) |-> rows[k].prefix_offset],
        !.read_offsets = [k \in 1..Len(rows) |-> rows[k].read_offset],
        !.stopping_criterias = [k \in 1..Len(rows) |-> rows[k].stopping_criteria],
        !.max_input_length =
            Max2(b.max_input_length,
                 SeqMax([k \in 1..Len(rows) |-> rows[k].new_input_length]))]

\* "Update values" (lines 771-776), for every row
StepUpdateRows(b, rows) ==
    [b EXCEPT
        !.input_ids = [k \in 1..Len(b.input_ids) |->
            IF k <= Len(rows)
            THEN [b.input_ids[k] EXCEPT ![1] = rows[k].next_token_id]
            ELSE b.input_ids[k]],
        !.all_input_ids = [k \in 1..Len(rows) |-> rows[k].all_input_ids],
        !.input_lengths = [k \in 1..Len(rows) |-> rows[k].new_input_length],
        !.prefix_offsets = [k \in 1..Len(rows) |-> rows[k].prefix_offset],
        !.read_offsets = [k \in 1..Len(rows) |-> rows[k].read_offset],
        !.stopping_criterias = [k \in 1..Len(rows) |-> rows[k].stopping_criteria],
        !.max_input_length =
            Max2(b.max_input_length,
                 SeqMax([k \in 1..Len(rows) |-> rows[k].new_input_length]))]

\* mutant of StepMaskColumn: the offset is decremented before it is used
StepMaskColumnMut(b) ==
    IF -(b.padding_right_offset - 1) < 0
    THEN Len(b.attention_mask[1]) - (b.padding_right_offset - 1)
    ELSE -(b.padding_right_offset - 1)

\* the column addressed by attention_mask[:, -padding_right_offset]
StepMaskColumn(b) ==
    IF -b.padding_right_offset < 0
    THEN Len(b.attention_mask[1]) - b.padding_right_offset
    ELSE -b.padding_right_offset

\* mutant of StepAdvance: padding_right_offset is not decreased
StepAdvanceMut(b) ==
    [b EXCEPT
        !.input_ids = [k \in 1..Len(b.input_ids) |-> PySlice(b.input_ids[k], 0, 1)],
        !.attention_mask = [k \in 1..Len(b.attention_mask) |->
            [b.attention_mask[k] EXCEPT ![StepMaskColumn(b) + 1] = 1]],
        !.position_ids = [k \in 1..Len(b.position_ids) |->
            <<Last(b.position_ids[k]) + 1>>],
        !.past_key_values = PastNone]

\* lines 783-794: the successor state
StepAdvance(b) ==
    [b EXCEPT
        !.input_ids = [k \in 1..Len(b.input_ids) |-> PySlice(b.input_ids[k], 0, 1)],
        !.attention_mask = [k \in 1..Len(b.attention_mask) |->
            [b.attention_mask[k] EXCEPT ![StepMaskColumn(b) + 1] = 1]],
        !.padding_right_offset = b.padding_right_offset - 1,
        !.position_ids = [k \in 1..Len(b.position_ids) |->
            <<Last(b.position_ids[k]) + 1>>],
        !.past_key_values = PastNone]

\* mutant of GenerateToken: "Update values" sits inside the sharding test, so
\* a shard writes back only the rows it emits
GenerateTokenMut(b, toks, pl, world_size, rank) ==
    LET rows == [k \in 1..BLen(b) |-> StepRow(b, k, toks[k])]
        gens == StepGenerations(b, rows, 1, pl, world_size, rank)
        own == [k \in 1..BLen(b) |->
                  IF ShardEmits(k - 1, world_size, rank) THEN rows[k]
                  ELSE [rows[k] EXCEPT
                           !.all_input_ids = b.all_input_ids[k],
                           !.new_input_length = b.input_lengths[k],
                           !.next_token_id = b.input_ids[k][1],
                           !.prefix_offset = b.prefix_offsets[k],
                           !.read_offset = b.read_offsets[k]]]
        b1 == StepUpdateRows(b, own)
    IN  IF StepStopped(rows)
        THEN [outcome |-> "none", batch |-> b1, generations |-> gens]
        ELSE IF StepMaskColumn(b1) < 0 \/ StepMaskColumn(b1) >= Len(b1.attention_mask[1])
        THEN [outcome |-> "IndexError",
              batch |-> [b1 EXCEPT !.input_ids =
                  [k \in 1..Len(b1.input_ids) |-> PySlice(b1.input_ids[k], 0, 1)]],
              generations |-> <<>>]
        ELSE [outcome |-> "batch", batch |-> StepAdvance(b1), generations |-> gens]

\* generate_token(self, batch) on the shard of the given rank; toks[k] is the
\* token the chooser selects for row k from the engine's logits, pl the
\* prefill_logprobs flag of the batch's requests
GenerateToken(b, toks, pl, world_size, rank) ==
    LET rows == [k \in 1..BLen(b) |-> StepRow(b, k, toks[k])]
        gens == StepGenerations(b, rows, 1, pl, world_size, rank)
        b1 == StepUpdateRows(b, rows)
    IN  IF StepStopped(rows)
        THEN [outcome |-> "none", batch |-> b1, generations |-> gens]
        ELSE IF StepMaskColumn(b1) < 0 \/ StepMaskColumn(b1) >= Len(b1.attention_mask[1])
        THEN [outcome |-> "IndexError",
              batch |-> [b1 EXCEPT !.input_ids =
                  [k \in 1..Len(b1.input_ids) |-> PySlice(b1.input_ids[k], 0, 1)]],
              generations |-> <<>>]
        ELSE [outcome |-> "batch", batch |-> StepAdvance(b1), generations |-> gens]
\* ============================================================ state machine
\* The cooperating shards run every call in lock step on identical copies of
\* the cache, so one copy is kept; what the call did on each rank is kept per
\* rank in last.res (from_pb, filter and concatenate do not read the rank).
VARIABLES
    cache,        \* cache[batch_id]: the batches a shard holds between calls
    next_req,     \* id the router gives the next request
    next_batch,   \* id the router gives the next batch message
    last          \* the last call: its arguments and, per rank, what it did

vars == <<cache, next_req, next_batch, last>>

\* dict operations on the cache
Put(c, id, b) == [k \in (DOMAIN c) \cup {id} |-> IF k = id THEN b ELSE c[k]]
Drop(c, ids) == [k \in (DOMAIN c) \ ids |-> c[k]]

\* injective sequences of length n over S
Arrangements(S, n) ==
    {q \in [1..n -> S] : \A i, j \in 1..n : i # j => q[i] # q[j]}

MemberIds(b) == {b.requests[k].id : k \in 1..BLen(b)}

\* every row of the batch has been through at least one step
Stepped(b) == \A k \in 1..BLen(b) : b.stopping_criterias[k].current_tokens >= 1

NoResult ==
    [outcome |-> "none", before |-> <<>>, after |-> <<>>, result |-> <<>>,
     generations |-> <<>>]

Init ==
    /\ cache = <<>>
    /\ next_req = 1
    /\ next_batch = 1
    /\ last = [kind |-> "init", batch_ids |-> <<>>, request_ids |-> <<>>,
               world_size |-> 1,
               prefill_logprobs |-> FALSE, res |-> [r \in {0} |-> NoResult]]

\* a Batch message of n fresh requests is ingested
Ingest(n, ntok, mnt) ==
    /\ next_batch <= MaxBatch
    /\ next_req + n - 1 <= MaxReq
    /\ LET reqs == [k \in 1..n |->
                      Request(next_req + k - 1, ntok[k], mnt[k])]
           b == FromPb(next_batch, reqs)
       IN  /\ cache' = Put(cache, next_batch, b)
           /\ last' = [kind |-> "from_pb", batch_ids |-> <<next_batch>>,
                       request_ids |-> <<>>, world_size |-> 1,
                       prefill_logprobs |-> FALSE,
                       res |-> [r \in {0} |->
                           [NoResult EXCEPT !.outcome = "returned",
                                            !.after = <<b>>]]]
    /\ next_req' = next_req + n
    /\ next_batch' = next_batch + 1

\* one decode step of batch bid by the ws shards, with the same engine
\* output; the batch stays cached only when the step returns it
Step(bid, toks, pl, ws) ==
    /\ LET out == [r \in 0..(ws - 1) |->
                     GenerateToken(cache[bid], toks, pl, ws, r)]
       IN  /\ cache' = IF out[0].outcome = "batch"
                       THEN Put(cache, bid, out[0].batch)
                       ELSE Drop(cache, {bid})
           /\ last' = [kind |-> "generate_token", batch_ids |-> <<bid>>,
                       request_ids |-> <<>>, world_size |-> ws,
                       prefill_logprobs |-> pl,
                       res |-> [r \in 0..(ws - 1) |->
                           [outcome |-> out[r].outcome,
                            before |-> <<cache[bid]>>,
                            after |-> <<out[r].batch>>,
                            result |-> <<>>,
                            generations |-> out[r].generations]]]
    /\ UNCHANGED <<next_req, next_batch>>

\* filter of batch bid; a call that fails after it has begun to mutate the
\* batch leaves an object the caller no longer uses
FilterOutcomeKeeps(o) == o \in {"returned", "ValueError", "KeyError"}

FilterBatch(bid, request_ids) ==
    /\ LET out == Filter(cache[bid], request_ids)
       IN  /\ cache' = IF FilterOutcomeKeeps(out.outcome)
                       THEN Put(cache, bid, out.batch)
                       ELSE Drop(cache, {bid})
           /\ last' = [kind |-> "filter", batch_ids |-> <<bid>>,
                       request_ids |-> request_ids, world_size |-> 1,
                       prefill_logprobs |-> FALSE,
                       res |-> [r \in {0} |->
                           [outcome |-> out.outcome,
                            before |-> <<cache[bid]>>,
                            after |-> <<out.batch>>,
                            result |-> <<>>,
                            generations |-> <<>>]]]
    /\ UNCHANGED <<next_req, next_batch>>

\* concatenate of the cached batches bids (in this order); the inputs leave
\* the cache and the result enters it under its batch id
ConcatenateBatches(bids) ==
    /\ LET out == Concatenate([j \in 1..Len(bids) |-> cache[bids[j]]])
       IN  /\ cache' = IF out.outcome = "returned"
                       THEN Put(Drop(cache, Range(bids)),
                                out.result[1].batch_id, out.result[1])
                       ELSE Drop(cache, Range(bids))
           /\ last' = [kind |-> "concatenate", batch_ids |-> bids,
                       request_ids |-> <<>>, world_size |-> 1,
                       prefill_logprobs |-> FALSE,
                       res |-> [r \in {0} |->
                           [outcome |-> out.outcome,
                            before |-> [j \in 1..Len(bids) |-> cache[bids[j]]],
                            after |-> out.inputs,
                            result |-> out.result,
                            generations |-> <<>>]]]
    /\ UNCHANGED <<next_req, next_batch>>

\* the request-id lists a caller passes to filter: distinct member ids in any
\* order and of any length up to the batch size, or a list shorter than the
\* batch whose last id is the unknown id 0
FilterArgs(b) ==
    LET lists == UNION {Arrangements(MemberIds(b), n) : n \in 0..BLen(b)}
    IN  lists \cup {[q EXCEPT ![Len(q)] = 0] :
                       q \in {l \in lists : Len(l) >= 1 /\ Len(l) < BLen(b)}}

DoIngest ==
    \E n \in 1..MaxSize :
        \E ntok \in [1..n -> 1..MaxLen], mnt \in [1..n -> 1..MaxNew] :
            Ingest(n, ntok, mnt)

DoStep ==
    \E bid \in DOMAIN cache, ws \in 1..MaxWorld :
        \E toks \in [1..BLen(cache[bid]) -> GenTokens],
           pl \in (IF Stepped(cache[bid]) THEN {FALSE} ELSE BOOLEAN) :
            Step(bid, toks, pl, ws)

DoFilter ==
    \E bid \in DOMAIN cache :
        \E request_ids \in FilterArgs(cache[bid]) : FilterBatch(bid, request_ids)

\* a merge of between lo and hi cached batches that have been stepped
ConcatenateSome(lo, hi) ==
    \E n \in lo..hi :
        \E bids \in Arrangements({bid \in DOMAIN cache : Stepped(cache[bid])}, n) :
            ConcatenateBatches(bids)

DoConcatenate == ConcatenateSome(1, MaxBatch)

Next == DoIngest \/ DoStep \/ DoFilter \/ DoConcatenate

Spec == Init /\ [][Next]_vars
\* --------------------------------------------------------------- SpecMerge
\* Three cached batches that have each completed at least one step, and the
\* merges a caller can make of them.
RECURSIVE StepsG(_, _)
\* s steps of batch b in which every row is given the ordinary token
StepsG(b, s) ==
    IF s = 0 THEN b
    ELSE StepsG(GenerateToken(b, Rep(TokG, BLen(b)), FALSE, 1, 0).batch, s - 1)

\* the steps of StepsG(b, s) all return a successor state
RECURSIVE StepsGLive(_, _)
StepsGLive(b, s) ==
    IF s = 0 THEN TRUE
    ELSE LET out == GenerateToken(b, Rep(TokG, BLen(b)), FALSE, 1, 0)
         IN  out.outcome = "batch" /\ StepsGLive(out.batch, s - 1)

MergeBatchIds == 1..3

InitMerge ==
    \E size \in [MergeBatchIds -> 1..MaxSize] :
      /\ size[1] + size[2] + size[3] <= MergeMaxReq
      /\ \E ntok \in [1..(size[1] + size[2] + size[3]) -> 1..MaxLen],
            mnt \in [1..(size[1] + size[2] + size[3]) -> 2..MergeMaxNew],
            steps \in [MergeBatchIds -> 1..(MergeMaxNew - 1)] :
           LET first == [j \in MergeBatchIds |->
                           SeqSum([i \in 1..(j - 1) |-> size[i]])]
               fresh == [j \in MergeBatchIds |->
                           FromPb(j, [k \in 1..size[j] |->
                               Request(first[j] + k, ntok[first[j] + k],
                                       mnt[first[j] + k])])]
           IN  /\ \A j \in MergeBatchIds : StepsGLive(fresh[j], steps[j])
               /\ cache = [j \in MergeBatchIds |-> StepsG(fresh[j], steps[j])]
               /\ next_req = size[1] + size[2] + size[3] + 1
      /\ next_batch = 4
      /\ last = [kind |-> "init", batch_ids |-> <<>>, request_ids |-> <<>>,
                 world_size |-> 1,
                 prefill_logprobs |-> FALSE, res |-> [r \in {0} |-> NoResult]]

DoMerge == ConcatenateSome(2, 3)

SpecMerge == InitMerge /\ [][DoMerge]_vars
\* ================================================================== claims
\* what the last call did on rank 0 (every call but generate_token runs the
\* same on all ranks)
Res == last.res[0]
Before == Res.before[1]
After == Res.after[1]

Count(s, x) == Cardinality({k \in 1..Len(s) : s[k] = x})

\* row k of every parallel array and buffer of b belongs to requests[k]
RowBelongs(b, k) ==
    LET id == b.requests[k].id
    IN  /\ b.requests_idx_mapping[id] = k - 1
        /\ b.next_token_choosers[k].rid = id
        /\ b.stopping_criterias[k].rid = id
        /\ PromptTok(id) \in Range(b.all_input_ids[k])
        /\ Range(b.all_input_ids[k]) \subseteq {PAD, PromptTok(id)} \cup GenTokens
        /\ b.input_lengths[k] =
               b.requests[k].inputs + b.stopping_criterias[k].current_tokens
        /\ Last(b.input_ids[k]) = Last(b.all_input_ids[k])
        /\ Count(b.attention_mask[k], 1) = b.input_lengths[k]
        /\ Last(b.position_ids[k]) = b.input_lengths[k] - 1
        /\ b.read_offsets[k] <= Len(b.all_input_ids[k])
        /\ b.prefix_offsets[k] <= b.read_offsets[k]

\* all parallel arrays and buffers have one row per request, and row k of
\* each belongs to requests[k]
RowCorrespondence(b) ==
    /\ \A f \in {"all_input_ids", "input_lengths", "prefix_offsets",
                 "read_offsets", "next_token_choosers", "stopping_criterias",
                 "input_ids", "attention_mask", "position_ids"} :
           Len(b[f]) = BLen(b)
    /\ DOMAIN b.requests_idx_mapping = MemberIds(b)
    /\ \A k \in 1..BLen(b) : RowBelongs(b, k)

\* the BatchState objects the last call returned or was applied to
LastObjects ==
    CASE last.kind = "from_pb" -> {After}
      [] last.kind = "filter" -> {After}
      [] last.kind = "concatenate" -> Range(Res.result)
      [] last.kind = "generate_token" ->
             {last.res[r].after[1] : r \in {r \in DOMAIN last.res :
                                               last.res[r].outcome = "batch"}}
      [] OTHER -> {}

\* C1: row-correspondence. After any sequence of from_pb, generate_token,
\* filter and concatenate calls, every BatchState has the same number of rows
\* in all its parallel arrays and buffers, row i of each belongs to
\* requests[i], and requests_idx_mapping[requests[i].id] = i.
C1_RowCorrespondence ==
    /\ \A bid \in DOMAIN cache : RowCorrespondence(cache[bid])
    /\ \A b \in LastObjects : RowCorrespondence(b)

\* C2: filter in the no-cache mode. A filter call with a non-empty list of
\* distinct member ids that is a proper subset of the membership completes
\* without raising an error.
C2_FilterNoCache ==
    (/\ last.kind = "filter"
     /\ last.request_ids # <<>>
     /\ Range(last.request_ids) \subseteq MemberIds(Before)
     /\ Range(last.request_ids) # MemberIds(Before))
    => Res.outcome = "returned"

\* row i of b is, in every array and buffer, the row that request_ids[i] had
\* in the batch old
RowsFollow(b, old, request_ids) ==
    /\ BLen(b) = Len(request_ids)
    /\ DOMAIN b.requests_idx_mapping = Range(request_ids)
    /\ \A i \in 1..Len(request_ids) :
        LET j == old.requests_idx_mapping[request_ids[i]] + 1
        IN  /\ b.requests[i].id = request_ids[i]
            /\ b.requests_idx_mapping[request_ids[i]] = i - 1
            /\ \A f \in {"all_input_ids", "input_lengths", "prefix_offsets",
                         "read_offsets", "next_token_choosers",
                         "stopping_criterias", "input_ids", "position_ids"} :
                   Len(b[f]) = Len(request_ids) /\ b[f][i] = old[f][j]
            /\ Len(b.attention_mask) = Len(request_ids)
            /\ Count(b.attention_mask[i], 1) = Count(old.attention_mask[j], 1)

\* C3: filter honours the caller's order. For every non-empty list L of
\* distinct member ids, of any length up to the full membership and in any
\* order, after filter returns row i of the state is request L[i] in requests,
\* in requests_idx_mapping and in every per-row array and buffer.
C3_FilterOrder ==
    (/\ last.kind = "filter"
     /\ last.request_ids # <<>>
     /\ Range(last.request_ids) \subseteq MemberIds(Before)
     /\ Res.outcome = "returned")
    => RowsFollow(After, Before, last.request_ids)

\* the retain list is the full current membership
FullMembership(b, request_ids) ==
    Len(request_ids) = BLen(b) /\ Range(request_ids) = MemberIds(b)

\* C4: filter no-op law. When the retain list is the full current membership,
\* filter returns the same BatchState with every field unchanged.
C4_FilterNoOp ==
    (last.kind = "filter" /\ FullMembership(Before, last.request_ids))
    => /\ Res.outcome = "returned"
       /\ After = Before
       /\ last.batch_ids[1] \in DOMAIN cache
       /\ cache[last.batch_ids[1]] = Before

C4_Witness ==
    /\ last.kind = "filter"
    /\ FullMembership(Before, last.request_ids)
    /\ BLen(Before) = 2
    /\ Stepped(Before)
    /\ Res.outcome = "returned"

\* C5: filter non-empty law. A filter call with an empty retain list is
\* rejected with an error and leaves the BatchState unchanged.
C5_FilterEmpty ==
    (last.kind = "filter" /\ last.request_ids = <<>>)
    => /\ Res.outcome = "ValueError"
       /\ After = Before
       /\ last.batch_ids[1] \in DOMAIN cache
       /\ cache[last.batch_ids[1]] = Before

C5_Witness ==
    /\ last.kind = "filter"
    /\ last.request_ids = <<>>
    /\ Res.outcome = "ValueError"
    /\ BLen(Before) = 2
    /\ Stepped(Before)
\* ---------------------------------------------------------------- C6
\* the fields of a merge result the grouping law compares
MergeView(b) ==
    [requests |-> b.requests,
     all_input_ids |-> b.all_input_ids,
     input_lengths |-> b.input_lengths,
     stopping_criterias |-> b.stopping_criterias,
     attention_mask |-> b.attention_mask,
     max_input_length |-> b.max_input_length,
     padding_right_offset |-> b.padding_right_offset,
     max_tokens |-> b.max_tokens]

SteppedIds == {bid \in DOMAIN cache : Stepped(cache[bid])}

\* C6: merge grouping. For any three BatchStates A, B, C that have each
\* completed at least one step, concatenate([concatenate([A,B]), C]) and
\* concatenate([A,B,C]) both return, with the same row sequence, the same
\* attention mask, the same max_input_length and padding_right_offset and the
\* same max_tokens.
C6_MergeGrouping ==
    \A bids \in Arrangements(SteppedIds, 3) :
        LET ab == Concatenate(<<cache[bids[1]], cache[bids[2]]>>)
            direct == Concatenate(<<cache[bids[1]], cache[bids[2]], cache[bids[3]]>>)
        IN  /\ ab.outcome = "returned"
            /\ direct.outcome = "returned"
            /\ LET nested == Concatenate(<<ab.result[1], cache[bids[3]]>>)
               IN  /\ nested.outcome = "returned"
                   /\ MergeView(nested.result[1]) = MergeView(direct.result[1])

\* three stepped batches of pairwise different max_input_length, not all of
\* the same padding_right_offset, the longest merged last
C6_Witness ==
    \E bids \in Arrangements(SteppedIds, 3) :
        /\ cache[bids[1]].max_input_length < cache[bids[2]].max_input_length
        /\ cache[bids[2]].max_input_length < cache[bids[3]].max_input_length
        /\ cache[bids[1]].padding_right_offset # cache[bids[2]].padding_right_offset

\* ---------------------------------------------------------------- C7
\* the row of request id in batch b
RowOf(b, id) == CHOOSE k \in 1..BLen(b) : b.requests[k].id = id

\* the per-row progress values of request id in batch b
Progress(b, id) ==
    LET k == RowOf(b, id)
    IN  [current_tokens |-> b.stopping_criterias[k].current_tokens,
         input_length |-> b.input_lengths[k],
         history |-> Len(b.all_input_ids[k])]

Advanced(p) ==
    [current_tokens |-> p.current_tokens + 1,
     input_length |-> p.input_length + 1,
     history |-> p.history + 1]

\* C7: step monotonicity. Every generate_token call increases, for every row
\* of the batch (stopping or not, emitted by this shard or not), the row's
\* current_tokens, input_lengths[i] and history length by exactly 1; filter
\* and concatenate change none of these per-row values.
C7_StepMonotonicity ==
    /\ last.kind = "generate_token" =>
          \A r \in DOMAIN last.res :
              /\ MemberIds(last.res[r].after[1]) = MemberIds(Before)
              /\ \A id \in MemberIds(Before) :
                     Progress(last.res[r].after[1], id) = Advanced(Progress(Before, id))
    /\ last.kind = "filter" =>
          /\ MemberIds(After) \subseteq MemberIds(Before)
          /\ \A id \in MemberIds(After) : Progress(After, id) = Progress(Before, id)
    /\ last.kind = "concatenate" =>
          \A j \in 1..Len(Res.before) :
              \A id \in MemberIds(Res.before[j]) :
                  /\ Progress(Res.after[j], id) = Progress(Res.before[j], id)
                  /\ \A b \in Range(Res.result) :
                         id \in MemberIds(b)
                         /\ Progress(b, id) = Progress(Res.before[j], id)

\* a step by two shards of a two-row batch in which one row stops and the
\* other does not
C7_Witness ==
    /\ last.kind = "generate_token"
    /\ last.world_size = 2
    /\ BLen(Before) = 2
    /\ Res.outcome = "batch"
    /\ \E k \in 1..2 :
          After.stopping_criterias[k].current_tokens
              >= After.stopping_criterias[k].max_new_tokens

\* ---------------------------------------------------------------- C9
\* the ranks whose generations hold a record of request id
Emitters(id) ==
    {r \in DOMAIN last.res :
        \E g \in 1..Len(last.res[r].generations) :
            last.res[r].generations[g].request_id = id}

\* C9: sharding completeness. For one step by the shards of ranks
\* 0..world_size-1, the record of row i is emitted by exactly one shard, the
\* one of rank i mod world_size, and by it once; so the emitted records cover
\* every row without duplicates, and with world_size = 1 rank 0 emits all.
C9_ShardingCompleteness ==
    last.kind = "generate_token" =>
        /\ DOMAIN last.res = 0..(last.world_size - 1)
        /\ \A k \in 1..BLen(Before) :
               Emitters(Before.requests[k].id) = {(k - 1) % last.world_size}
        /\ \A r \in DOMAIN last.res :
               \A g, h \in 1..Len(last.res[r].generations) :
                   g # h => last.res[r].generations[g].request_id
                              # last.res[r].generations[h].request_id
        /\ SeqSum([r \in 1..last.world_size |->
                      Len(last.res[r - 1].generations)]) = BLen(Before)

C9_Witness ==
    /\ last.kind = "generate_token"
    /\ last.world_size = 2
    /\ BLen(Before) = 2
    /\ Len(last.res[0].generations) = 1
    /\ Len(last.res[1].generations) = 1
    /\ last.res[0].generations[1].request_id = Before.requests[1].id
    /\ last.res[1].generations[1].request_id = Before.requests[2].id

\* ---------------------------------------------------------------- C10
\* C10: fresh-batch padding. In a BatchState just built by from_pb the mask
\* has width max_input_length + max(max_new_tokens), padding_right_offset is
\* that maximum, and row r is 0 on columns [0, max_input_length - length(r)),
\* 1 on [max_input_length - length(r), max_input_length) and 0 beyond.
C10_FreshPadding ==
    last.kind = "from_pb" =>
        LET b == After
            maxnew == SeqMax([k \in 1..BLen(b) |-> b.requests[k].max_new_tokens])
            mil == SeqMax([k \in 1..BLen(b) |-> b.requests[k].inputs])
        IN  /\ b.max_input_length = mil
            /\ b.padding_right_offset = maxnew
            /\ Len(b.attention_mask) = BLen(b)
            /\ \A k \in 1..BLen(b) :
                   /\ Len(b.attention_mask[k]) = mil + maxnew
                   /\ \A c \in 1..(mil + maxnew) :
                          b.attention_mask[k][c] =
                              IF c - 1 < mil - b.requests[k].inputs THEN 0
                              ELSE IF c - 1 < mil THEN 1 ELSE 0

\* a fresh batch with a left-padded row and two different max_new_tokens
C10_Witness ==
    /\ last.kind = "from_pb"
    /\ BLen(After) = 2
    /\ After.requests[1].inputs < After.requests[2].inputs
    /\ After.requests[1].max_new_tokens > After.requests[2].max_new_tokens
    /\ After.attention_mask[1][1] = 0
\* ---------------------------------------------------------------- C8
\* SpecServe: the serving loop. Batches are ingested and stepped, and the
\* rows that reported stop are filtered out before the next step.
RowStopped(b, k) ==
    /\ b.stopping_criterias[k].current_tokens >= 1
    /\ \/ b.stopping_criterias[k].current_tokens
             >= b.stopping_criterias[k].max_new_tokens
       \/ Last(b.all_input_ids[k]) = TokEOS

\* the ids of the rows that have not stopped, in row order
RECURSIVE Running(_, _)
Running(b, k) ==
    IF k > BLen(b) THEN <<>>
    ELSE (IF RowStopped(b, k) THEN <<>> ELSE <<b.requests[k].id>>)
         \o Running(b, k + 1)

ServeStep ==
    \E bid \in DOMAIN cache, ws \in 1..MaxWorld :
        /\ \A k \in 1..BLen(cache[bid]) : ~RowStopped(cache[bid], k)
        /\ \E toks \in [1..BLen(cache[bid]) -> GenTokens],
              pl \in (IF Stepped(cache[bid]) THEN {FALSE} ELSE BOOLEAN) :
               Step(bid, toks, pl, ws)

ServeFilter ==
    \E bid \in DOMAIN cache :
        /\ \E k \in 1..BLen(cache[bid]) : RowStopped(cache[bid], k)
        /\ FilterBatch(bid, Running(cache[bid], 1))

NextServe == DoIngest \/ ServeStep \/ ServeFilter

SpecServe == Init /\ [][NextServe]_vars

\* the record the last step emitted for request id (on the rank that emits it)
Emitted(id) ==
    LET r == CHOOSE r \in DOMAIN last.res : r \in Emitters(id)
        g == CHOOSE g \in 1..Len(last.res[r].generations) :
                 last.res[r].generations[g].request_id = id
    IN  last.res[r].generations[g]

\* the tokens request id had generated before the last step
EarlierTokens(b, id) ==
    LET k == RowOf(b, id)
    IN  Range(PyFrom(b.all_input_ids[k], -b.stopping_criterias[k].current_tokens))

\* a row with max_new_tokens = k reports stop at its k-th step at the latest,
\* and, when it met no end-of-sequence token, at exactly that step and for
\* the reason "length"
StopByK ==
    last.kind = "generate_token" =>
        \A id \in MemberIds(Before) :
            LET k == RowOf(After, id)
                sc == After.stopping_criterias[k]
                eos == TokEOS \in EarlierTokens(Before, id)
                           \/ Last(After.all_input_ids[k]) = TokEOS
            IN  /\ Emitters(id) # {}
                /\ sc.current_tokens >= sc.max_new_tokens
                       => Emitted(id).generated_text # <<>>
                /\ (sc.current_tokens = sc.max_new_tokens
                    /\ TokEOS \notin EarlierTokens(Before, id))
                       => /\ Emitted(id).generated_text # <<>>
                          /\ Emitted(id).generated_text[1].finish_reason = "length"
                /\ (sc.current_tokens < sc.max_new_tokens /\ ~eos)
                       => Emitted(id).generated_text = <<>>

\* a cached batch leaves the cache only by a step that returns no successor
LeavesByTerminalStep ==
    \A bid \in DOMAIN cache :
        bid \notin DOMAIN cache'
            => /\ last'.kind = "generate_token"
               /\ last'.batch_ids = <<bid>>
               /\ last'.res[0].outcome = "none"

\* C8: termination. A row admitted with max_new_tokens = k reports stop no
\* later than its k-th step and, absent an earlier stop condition, at exactly
\* its k-th step with reason "length"; so a batch that is stepped repeatedly,
\* its stopped rows being filtered out between steps, stays in service until
\* a step returns no successor state.
C8_Termination == []StopByK /\ [][LeavesByTerminalStep]_vars

\* --------------------------------------------------------------- SpecLife
\* The whole life of a batch on one shard: budgets large enough for a batch
\* to be stepped, merged and stepped again before its rows stop.
LifeIngest ==
    \E n \in 1..MaxSize :
        \E ntok \in [1..n -> 1..MaxLen], mnt \in [1..n -> 1..LifeMaxNew] :
            Ingest(n, ntok, mnt)

LifeStep ==
    \E bid \in DOMAIN cache :
        \E toks \in [1..BLen(cache[bid]) -> GenTokens] :
            Step(bid, toks, FALSE, 1)

\* the filter calls that return: the retain list is the membership, in any order
LifeFilter ==
    \E bid \in DOMAIN cache :
        \E request_ids \in Arrangements(MemberIds(cache[bid]), BLen(cache[bid])) :
            FilterBatch(bid, request_ids)

LifeMerge == ConcatenateSome(2, MaxBatch)

NextLife == LifeIngest \/ LifeStep \/ LifeFilter \/ LifeMerge

SpecLife == Init /\ [][NextLife]_vars

\* ---------------------------------------------------------------- C11
\* the BatchStates the last call returned
Returned ==
    CASE last.kind = "from_pb" -> {After}
      [] last.kind = "filter" /\ Res.outcome = "returned" -> {After}
      [] last.kind = "concatenate" -> Range(Res.result)
      [] last.kind = "generate_token" ->
             {last.res[r].after[1] : r \in {r \in DOMAIN last.res :
                                               last.res[r].outcome = "batch"}}
      [] OTHER -> {}

\* C11: padding_right_offset never goes negative. In every BatchState
\* returned by from_pb, filter, concatenate or a generate_token call that
\* returns a successor state, and in every cached one, padding_right_offset
\* is at least 0.
C11_PaddingRightOffsetNonNegative ==
    /\ \A b \in Returned : b.padding_right_offset >= 0
    /\ \A bid \in DOMAIN cache : cache[bid].padding_right_offset >= 0

\* the step that follows a merge of two batches of different lengths returns
\* a successor state, a row having reported stop, with one slack column left
C11_Witness ==
    /\ last.kind = "generate_token"
    /\ Res.outcome = "batch"
    /\ BLen(Before) = 2
    /\ Before.past_key_values = PastList(<<>>)
    /\ \E k \in 1..2 : RowStopped(After, k)
    /\ \E k \in 1..2 : After.input_lengths[k] < After.max_input_length
    /\ Before.padding_right_offset = 2
    /\ After.padding_right_offset = 1

\* ---------------------------------------------------------------- C12
\* C12: max_tokens is non-decreasing. No generate_token, filter or
\* concatenate call yields a state whose max_tokens is smaller than that of
\* the state, or of any of the input states, it was applied to.
C12_MaxTokensNonDecreasing ==
    /\ last.kind \in {"generate_token", "filter"} =>
           \A b \in Returned : b.max_tokens >= Before.max_tokens
    /\ last.kind = "concatenate" =>
           \A b \in Returned :
               \A j \in 1..Len(Res.before) :
                   b.max_tokens >= Res.before[j].max_tokens

\* a merge whose first input has the larger max_tokens and whose second
\* input is padded to the first one's length
C12_Witness ==
    /\ last.kind = "concatenate"
    /\ Res.outcome = "returned"
    /\ Len(Res.before) = 2
    /\ Res.before[1].max_tokens > Res.before[2].max_tokens
    /\ Res.before[1].max_input_length > Res.before[2].max_input_length
    /\ Res.result[1].max_tokens
           > Res.before[1].max_tokens + Res.before[2].max_tokens

\* ---------------------------------------------------------------- C13
\* the record the last step emitted for request id carries a completed
\* generation, i.e. the row reported stop in this step
ReportedStop(id) == Emitted(id).generated_text # <<>>

\* C13: generate_token returns no successor state if and only if every row
\* of the batch reported stop in this step; when at least one row did not
\* stop it returns the same BatchState, still holding every row in the same
\* order, the rows that stopped in this step included.
C13_NoSuccessorIffAllStopped ==
    last.kind = "generate_token" =>
        \A r \in DOMAIN last.res :
            LET a == last.res[r].after[1]
            IN  /\ last.res[r].outcome \in {"none", "batch"}
                /\ last.res[r].outcome = "none"
                       <=> \A id \in MemberIds(Before) : ReportedStop(id)
                /\ last.res[r].outcome = "batch" =>
                       /\ a.batch_id = Before.batch_id
                       /\ a.requests = Before.requests
                       /\ a.requests_idx_mapping = Before.requests_idx_mapping
                       /\ \A f \in {"all_input_ids", "input_lengths",
                                    "stopping_criterias", "input_ids",
                                    "attention_mask", "position_ids"} :
                              Len(a[f]) = BLen(Before)
                       /\ last.batch_ids[1] \in DOMAIN cache
                       /\ cache[last.batch_ids[1]] = last.res[0].after[1]

\* a step of a two-row batch in which the first row reports stop and the
\* second does not: the batch is returned with both rows
C13_Witness ==
    /\ last.kind = "generate_token"
    /\ BLen(Before) = 2
    /\ ReportedStop(Before.requests[1].id)
    /\ ~ReportedStop(Before.requests[2].id)
    /\ Res.outcome = "batch"
    /\ BLen(After) = 2

\* ---------------------------------------------------------------- C14
\* what a step that returned the successor state a did to the state b
StepEffect(b, a) ==
    /\ a.padding_right_offset = b.padding_right_offset - 1
    /\ a.max_input_length = b.max_input_length + 1
    /\ Len(a.attention_mask) = Len(b.attention_mask)
    /\ \A k \in 1..Len(b.attention_mask) :
           /\ Len(a.attention_mask[k]) = Len(b.attention_mask[k])
           /\ b.max_input_length + 1 \in 1..Len(b.attention_mask[k])
           /\ b.attention_mask[k][b.max_input_length + 1] = 0
           /\ \A c \in 1..Len(b.attention_mask[k]) :
                  a.attention_mask[k][c] =
                      IF c - 1 = b.max_input_length THEN 1
                      ELSE b.attention_mask[k][c]
    /\ Len(a.input_ids) = BLen(b)
    /\ Len(a.position_ids) = BLen(b)
    /\ \A k \in 1..BLen(b) :
           /\ a.input_ids[k] = <<Emitted(b.requests[k].id).token_id>>
           /\ a.position_ids[k] = <<Last(b.position_ids[k]) + 1>>
    /\ a.batch_id = b.batch_id
    /\ a.requests = b.requests
    /\ a.requests_idx_mapping = b.requests_idx_mapping
    /\ a.max_tokens = b.max_tokens

PaddedRow(b, k) ==
    \A c \in 1..Len(b.attention_mask[k]) :
        b.attention_mask[k][c] =
            IF /\ c - 1 >= b.max_input_length - b.input_lengths[k]
               /\ c - 1 < b.max_input_length
            THEN 1 ELSE 0

Padded(b) ==
    /\ Len(b.attention_mask) = BLen(b)
    /\ \A k \in 1..BLen(b) :
           /\ b.input_lengths[k] <= b.max_input_length
           /\ Len(b.attention_mask[k]) >= b.max_input_length
           /\ PaddedRow(b, k)

C16_IngestMaxTokens ==
    last.kind = "from_pb" =>
        After.max_tokens =
            BLen(After) * After.max_input_length
              + SeqSum([k \in 1..BLen(After) |-> After.requests[k].max_new_tokens])

\* ---------------------------------------------------------------- C17
\* the remaining decode budgets of the requests request_ids in batch b
RemainingOf(b, request_ids) ==
    [i \in 1..Len(request_ids) |->
        LET k == RowOf(b, request_ids[i])
        IN  b.stopping_criterias[k].max_new_tokens
              - b.stopping_criterias[k].current_tokens]

LengthsOf(b, request_ids) ==
    [i \in 1..Len(request_ids) |-> b.input_lengths[RowOf(b, request_ids[i])]]

\* C17: filter recomputes the batch-wide scalars from the retained rows only.
\* After filter to a proper subset L of the membership, max_input_length is
\* the largest retained input length, padding_right_offset the largest
\* retained (max_new_tokens - current_tokens), max_tokens is
\* |L| * max_input_length + the sum of the retained remaining budgets, and
\* the mask is max_input_length + padding_right_offset wide.
C17_FilterScalars ==
    (/\ last.kind = "filter"
     /\ last.request_ids # <<>>
     /\ Range(last.request_ids) \subseteq MemberIds(Before)
     /\ Len(last.request_ids) < BLen(Before))
    => LET L == last.request_ids
           mil == SeqMax(LengthsOf(Before, L))
           pro == SeqMax(RemainingOf(Before, L))
       IN  /\ After.max_input_length = mil
           /\ After.padding_right_offset = pro
           /\ After.max_tokens = Len(L) * mil + SeqSum(RemainingOf(Before, L))
           /\ \A k \in 1..Len(After.attention_mask) :
                  Len(After.attention_mask[k]) = mil + pro

\* ---------------------------------------------------------------- C18
\* the number of rows of the inputs before input j
RowsBefore(ins, j) == SeqSum([i \in 1..(j - 1) |-> BLen(ins[i])])

\* b is the merge of the input states ins, as the contract describes it
MergeOf(b, ins) ==
    LET mil == SeqMax([j \in 1..Len(ins) |-> ins[j].max_input_length])
        pro == SeqMax([j \in 1..Len(ins) |-> ins[j].padding_right_offset])
    IN  /\ BLen(b) = RowsBefore(ins, Len(ins) + 1)
        /\ \A j \in 1..Len(ins) :
               \A k \in 1..BLen(ins[j]) :
                   b.requests[RowsBefore(ins, j) + k] = ins[j].requests[k]
        /\ b.batch_id = ins[1].batch_id
        /\ b.max_input_length = mil
        /\ b.padding_right_offset = pro
        /\ Len(b.attention_mask) = BLen(b)
        /\ \A k \in 1..Len(b.attention_mask) :
               Len(b.attention_mask[k]) = mil + pro
        /\ b.max_tokens =
               SeqSum([j \in 1..Len(ins) |->
                   ins[j].max_tokens
                     + (mil - ins[j].max_input_length) * BLen(ins[j])])

\* C18: merge result. For an ordered list of one or more BatchStates that
\* have each completed at least one step, concatenate returns a BatchState
\* whose rows are the inputs' rows in order, whose batch id is the first
\* input's, whose max_input_length and padding_right_offset are the maxima
\* of the inputs', whose mask is (total rows) x (max_input_length +
\* padding_right_offset), and whose max_tokens is the sum over the inputs of
\* max_tokens + (merged max_input_length - own max_input_length) * size.
C18_MergeResult ==
    last.kind = "concatenate" =>
        /\ Res.outcome = "returned"
        /\ Len(Res.result) = 1
        /\ MergeOf(Res.result[1], Res.before)

\* a merge of three batches, the last neither the longest nor the one with
\* the most slack
C18_Witness ==
    /\ last.kind = "concatenate"
    /\ Res.outcome = "returned"
    /\ Len(Res.before) = 3
    /\ Res.before[3].max_input_length < Res.before[1].max_input_length
    /\ Res.before[3].padding_right_offset < Res.before[2].padding_right_offset
    /\ BLen(Res.result[1]) >= 3

\* ---------------------------------------------------------------- C19
\* C19: merge is a reallocation pass, not an aliasing view. concatenate
\* leaves every field of each input BatchState unchanged; in particular each
\* input's requests_idx_mapping still maps exactly its own request ids to
\* its own row indices after the call.
C19_MergeLeavesInputs ==
    last.kind = "concatenate" =>
        \A j \in 1..Len(Res.before) :
            /\ Res.after[j] = Res.before[j]
            /\ DOMAIN Res.after[j].requests_idx_mapping = MemberIds(Res.before[j])
            /\ \A k \in 1..BLen(Res.before[j]) :
                   Res.after[j].requests_idx_mapping[Res.before[j].requests[k].id]
                       = k - 1

\* ---------------------------------------------------------------- C20
\* C20: shard-independence of state. For the same input BatchState, engine
\* output and world_size, generate_token on any two shard ranks leaves
\* identical BatchStates (every per-row array, buffer and scalar equal) and
\* takes the same successor / no-successor decision; only the emitted
\* records depend on the rank.
C20_ShardIndependence ==
    last.kind = "generate_token" =>
        \A r1, r2 \in DOMAIN last.res :
            /\ last.res[r1].outcome = last.res[r2].outcome
            /\ last.res[r1].before = last.res[r2].before
            /\ last.res[r1].after = last.res[r2].after

\* a first step of a two-row batch by two shards that returns a successor
\* state: each shard emits one row and both have added a token to both rows
C20_Witness ==
    /\ last.kind = "generate_token"
    /\ last.world_size = 2
    /\ BLen(Before) = 2
    /\ last.res[1].outcome = "batch"
    /\ last.res[0].generations # last.res[1].generations
    /\ Len(last.res[0].generations) = 1
    /\ Len(last.res[1].generations) = 1
    /\ \A k \in 1..2 :
           Len(last.res[1].after[1].all_input_ids[k])
               = Len(Before.all_input_ids[k]) + 1

\* ---------------------------------------------------------------- C21
\* the last n entries of the sequence h
Tail_n(h, n) == SubSeq(h, Len(h) - n + 1, Len(h))

\* C21: completed-generation block. The record emitted for a row carries a
\* completed-generation block if and only if the row's stopping criteria
\* reported stop in this step; the block's token count is the row's
\* current_tokens after the step and its text is decoded from exactly the
\* last current_tokens tokens of the row's history, so a row with
\* max_new_tokens = 1 yields a block of 1 token after 1 step.
C21_CompletedGeneration ==
    last.kind = "generate_token" =>
        \A id \in MemberIds(Before) :
            LET k == RowOf(After, id)
                sc == After.stopping_criterias[k]
                h == After.all_input_ids[k]
                g == Emitted(id)
                reported ==
                    StoppingCriteriaCall(
                        Before.stopping_criterias[RowOf(Before, id)], Last(h)).stop
            IN  /\ g.generated_text # <<>> <=> reported
                /\ g.generated_text # <<>> =>
                       /\ g.generated_text[1].generated_tokens = sc.current_tokens
                       /\ sc.current_tokens <= Len(h)
                       /\ g.generated_text[1].output_tokens
                              = Tail_n(h, sc.current_tokens)
                       /\ Range(g.generated_text[1].output_tokens) \subseteq GenTokens
                /\ (sc.max_new_tokens = 1 /\ sc.current_tokens = 1) =>
                       /\ g.generated_text # <<>>
                       /\ Len(g.generated_text[1].output_tokens) = 1

\* a step in which a left-padded row stops on an end-of-sequence token
\* before its budget is used up, and another row emits no block
C21_Witness ==
    /\ last.kind = "generate_token"
    /\ BLen(Before) = 2
    /\ \E id \in MemberIds(Before) :
           LET k == RowOf(After, id)
           IN  /\ Emitted(id).generated_text # <<>>
               /\ Emitted(id).generated_text[1].finish_reason = "eos_token"
               /\ After.stopping_criterias[k].current_tokens
                      < After.stopping_criterias[k].max_new_tokens
               /\ PAD \in Range(After.all_input_ids[k])
    /\ \E id \in MemberIds(Before) : Emitted(id).generated_text = <<>>

\* ---------------------------------------------------------------- C22
\* C22: prefill block. A record carries a prefill block only on the row's
\* first step (current_tokens = 1 after the step) and only if prefill
\* log-probabilities were requested; in the block the number of
\* log-probability entries, the number of prompt token ids and the row's
\* true prompt length are equal, the first log-probability being NaN, for
\* every row, left-padded rows included.
C22_PrefillBlock ==
    last.kind = "generate_token" =>
        \A id \in MemberIds(Before) :
            LET k == RowOf(After, id)
                g == Emitted(id)
            IN  /\ g.prefill_tokens # <<>> <=>
                       /\ After.stopping_criterias[k].current_tokens = 1
                       /\ last.prefill_logprobs
                /\ g.prefill_tokens # <<>> =>
                       /\ Len(g.prefill_tokens[1].token_ids) = Before.requests[k].inputs
                       /\ Range(g.prefill_tokens[1].token_ids) = {PromptTok(id)}
                       /\ Len(g.prefill_tokens[1].logprobs) = Before.requests[k].inputs
                       /\ g.prefill_tokens[1].logprobs[1] = -1

\* ---------------------------------------------------------------- C23
\* what the step recorded in last handed to the engine
EngineInput == ForwardCt2(Before.all_input_ids, Before.input_lengths)

\* C23: engine-input consistency. At every engine invocation made by
\* generate_token, the length passed for a row equals the number of entries
\* of the row in the padded id matrix that are not the fill value, that is
\* the length of the history sent, so the first `length` tokens sent for the
\* row are exactly the row's real tokens.
C23_EngineInput ==
    last.kind = "generate_token" =>
        \A k \in 1..BLen(Before) :
            LET ids == EngineInput.ids_input[k]
                n == EngineInput.lengths[k]
            IN  /\ n = Cardinality({c \in 1..Len(ids) : ids[c] # FillValue})
                /\ n = Len(Before.all_input_ids[k])
                /\ \A c \in 1..n : ids[c] \notin {PAD, FillValue}

\* ---------------------------------------------------------------- C24
\* C24: filter is all-or-nothing on failure. Whenever a filter call raises
\* an error (empty retain list, an id that is not a member, a failure while
\* handling the cache), every field of the BatchState, the attention mask
\* included, is as it was before the call, so row-correspondence is intact.
C24_FilterAtomic ==
    (last.kind = "filter" /\ Res.outcome # "returned")
    => /\ After = Before
       /\ RowCorrespondence(After)

\* ---------------------------------------------------------------- C25
\* max_input_length is the largest input length and every mask row is
\* max_input_length + padding_right_offset wide
Shaped(b) ==
    /\ b.max_input_length = SeqMax(b.input_lengths)
    /\ \A k \in 1..Len(b.attention_mask) :
           Len(b.attention_mask[k]) = b.max_input_length + b.padding_right_offset

Remaining(b, k) ==
    b.stopping_criterias[k].max_new_tokens - b.stopping_criterias[k].current_tokens

\* padding_right_offset is the largest remaining budget, and at least 1
Slack(b) ==
    /\ \A k \in 1..BLen(b) : Remaining(b, k) <= b.padding_right_offset
    /\ \E k \in 1..BLen(b) : Remaining(b, k) = b.padding_right_offset
    /\ b.padding_right_offset >= 1

====
